---- MODULE Spec2Model ----
(***************************************************************************)
(* A model of the job scheduler (src/src/services/scheduler.js), of the    *)
(* job executor (src/src/services/executor.js), of the CRON parser         *)
(* (src/src/utils/cronParser.js) and of the update route of server.js.     *)
(*                                                                         *)
(* Spec     : the Scheduler singleton: its job map, the timers it arms     *)
(*            with setTimeout, its metrics, and the promises it leaves     *)
(*            pending (updateJob on db.run, start on Job.getAllActive,     *)
(*            executeJob on executor.execute).                             *)
(* SpecExec : one call of Executor.execute, step by step at its awaits.    *)
(* SpecTime : the timers of one job on a clock: the instant each timer is  *)
(*            for, the instant it fires, the instant of each dispatch.     *)
(* SpecCron : CronParser.parse, getNextExecution and matchesSchedule       *)
(*            applied to an expression, a reference instant and a zone.    *)
(* SpecPut  : PUT /api/jobs/:id on top of addJob and updateJob.            *)
(* SpecFire : jobs that are added once and then left alone, with timers    *)
(*            that fire when they are due.                                 *)
(* SpecDrift: the timers of one job on a clock, with callbacks that run    *)
(*            late, and the running average of the drift of executeJob.    *)
(* SpecHorizon: getNextExecution for schedules that match rarely or        *)
(*            never, up to the end of its loop.                            *)
(*                                                                         *)
(* Node runs one callback at a time: a handler is atomic up to its next    *)
(* await on I/O or a timer, and each action below is one such stretch.     *)
(***************************************************************************)
EXTENDS Integers, Sequences, FiniteSets, Bags, TLC

(***************************************************************************)
(* Bounds of the model.                                                    *)
(***************************************************************************)
MaxJobs == 2        \* job ids in use
MaxFires == 2       \* timer callbacks run in one behaviour
MaxTimers == 3      \* timers armed and not yet fired or cleared
MaxUpdates == 2     \* updateJob calls suspended on db.run at once
MaxLoads == 1       \* start calls suspended in loadJobs at once
MaxCalls == 3       \* calls of the scheduler's methods in one behaviour
MaxChain == 4       \* timer callbacks of the timed job in one behaviour

JobIds == 1..MaxJobs

(***************************************************************************)
(* Schedule expressions, one per way CronParser treats an expression.      *)
(***************************************************************************)
EverySecond == "* * * * * *"      \* parses, always has a next execution
LeapDay == "0 0 0 29 2 *"         \* parses, next execution only within a year of Feb 29
FiveFields == "* * * * *"         \* parse throws: not six fields

\* CronParser.parse returns (TRUE) or throws (FALSE)
parse(expr) == expr # FiveFields

\* CronParser.getNextExecution(now, schedule): the outcomes some `now` produces;
\* TRUE is a returned instant, FALSE the error thrown after a year of probes
getNextExecution(expr) ==
    IF expr = EverySecond THEN {TRUE} ELSE {TRUE, FALSE}

AtLeastOnce == "ATLEAST_ONCE"
ExactlyOnce == "EXACTLY_ONCE"

\* the <<schedule, api, type>> triples the callers pass
JobSpecs ==
    { <<EverySecond, "a", AtLeastOnce>>,
      <<LeapDay, "b", ExactlyOnce>>,
      <<FiveFields, "b", AtLeastOnce>> }

JobOf(jobId, s) == [jobId |-> jobId, api |-> s[2], schedule |-> s[1], type |-> s[3]]

Fields(s) == [api |-> s[2], schedule |-> s[1], type |-> s[3]]

Null == 0        \* timeoutId: null

NoError == "null"       \* error: null

\* the message of the error a rejected db.run carries
DbError == "SQLITE_BUSY: database is locked"

VARIABLES
    jobs,           \* this.jobs: jobId -> [schedule, timeoutId, job]
    timers,         \* the armed timers of the event loop: [id, job]
    isRunning,      \* this.isRunning
    metrics,        \* this.metrics
    updates,        \* updateJob calls awaiting db.run
    loads,          \* start calls awaiting Job.getAllActive
    dbJobs,         \* the jobs table: jobId -> row
    inflight,       \* bag of jobs whose executor.execute promise is pending
    removedSince,   \* history: removeJob(j) ran and j was not scheduled again since
    calls,          \* history: calls of addJob, updateJob, removeJob, start, stop so far
    ret             \* how the call that ended last ended: returned, resolved or rejected

VARIABLES
    pc,             \* where the call of Executor.execute stands
    execJob,        \* the job passed to execute
    attempt,        \* makeRequest: the loop variable
    lastError,      \* makeRequest: message of lastError
    response,       \* status of the response in hand
    thrown,         \* execute: message of the error caught
    outcome,        \* the object execute returned
    executions,     \* the executions table
    alerts,         \* the alerts alertFailure printed
    posts,          \* history: calls of axios.post
    attempts,       \* history: how each call of axios.post ended
    sleeps,         \* history: the delays slept, in ms
    creates,        \* history: calls of Execution.create
    createErrors    \* history: calls of Execution.create that rejected

VARIABLES
    now,            \* the clock, in seconds
    pending,        \* the armed timer of the job: the instant it is for, the instant it fires
    dispatchedAt    \* history: for each dispatch, the instant it was for and the instant it ran

VARIABLES
    cronExpression, \* the string passed to CronParser.parse
    timeZone,       \* the time zone of the process, which local time is taken in
    fromDate,       \* the Date passed to getNextExecution and to matchesSchedule
    schedule,       \* what parse returned or threw
    nextExecution,  \* what getNextExecution returned
    matched         \* what matchesSchedule returned for fromDate

schedVars ==
    <<jobs, timers, isRunning, metrics, updates, loads, dbJobs, inflight,
      removedSince, calls, ret>>

execVars ==
    <<pc, execJob, attempt, lastError, response, thrown, outcome, executions, alerts,
      posts, attempts, sleeps, creates, createErrors>>

timeVars == <<now, pending, dispatchedAt>>

cronVars == <<cronExpression, timeZone, fromDate, schedule, nextExecution, matched>>

vars == <<schedVars, execVars, timeVars, cronVars>>

(***************************************************************************)
(* Map and timer primitives.                                               *)
(***************************************************************************)
has(jb, jobId) == jobId \in DOMAIN jb

set(jb, jobId, e) ==
    [k \in DOMAIN jb \cup {jobId} |-> IF k = jobId THEN e ELSE jb[k]]

\* Map.clear in the place of Map.delete
clear(jb, jobId) == << >>

delete(jb, jobId) == [k \in DOMAIN jb \ {jobId} |-> jb[k]]

clearTimeout(tm, timeoutId) == {t \in tm : t.id # timeoutId}

\* setTimeout returns a handle distinct from every handle still referenced
setTimeout(S) ==
    LET used == {t.id : t \in S.timers} \cup {S.jobs[k].timeoutId : k \in DOMAIN S.jobs}
    IN  CHOOSE h \in 1..(Cardinality(used) + 1) :
            h \notin used /\ \A g \in 1..(h - 1) : g \in used

LiveTimers(tm, jobId) == {t \in tm : t.job.jobId = jobId}

(***************************************************************************)
(* Scheduler.scheduleExecution: arm a timer whose callback runs with this  *)
(* job object, and store its handle in the entry if the map has one.       *)
(* S is [jobs, timers]. The instants (executionTime, delay) are not part   *)
(* of this model.                                                          *)
(***************************************************************************)
scheduleExecution(S, job) ==
    LET timeoutId == setTimeout(S)
    IN  [ jobs |-> IF has(S.jobs, job.jobId)
                   THEN [S.jobs EXCEPT ![job.jobId].timeoutId = timeoutId]
                   ELSE S.jobs,
          timers |-> S.timers \cup {[id |-> timeoutId, job |-> job]} ]

(***************************************************************************)
(* Scheduler.scheduleJob. found: getNextExecution returned an instant.     *)
(* A throw of parse or of getNextExecution is caught and changes nothing.  *)
(* The timer is armed (scheduleExecution) before the entry is stored.      *)
(***************************************************************************)
scheduleJob(S, job, found) ==
    IF ~parse(job.schedule) \/ ~found
    THEN S
    ELSE LET cancelled ==
                 IF has(S.jobs, job.jobId) /\ S.jobs[job.jobId].timeoutId # Null
                 THEN [S EXCEPT !.timers = clearTimeout(@, S.jobs[job.jobId].timeoutId)]
                 ELSE S
             armed == scheduleExecution(cancelled, job)
         IN  [armed EXCEPT !.jobs =
                 set(@, job.jobId,
                     [schedule |-> job.schedule, timeoutId |-> Null, job |-> job])]

\* what getNextExecution can do for this job; parse throws before it is called
Found(job) == IF parse(job.schedule) THEN getNextExecution(job.schedule) ELSE {FALSE}

(***************************************************************************)
(* Scheduler.rescheduleJob                                                 *)
(***************************************************************************)
\* rescheduleJob as it would stand if its error stopped the scheduler
rescheduleJobOrHalt(S, jobId, found) ==
    IF ~has(S.jobs, jobId) THEN S
    ELSE IF ~found THEN [jobs |-> << >>, timers |-> {}]
    ELSE scheduleExecution(S, S.jobs[jobId].job)

rescheduleJob(S, jobId, found) ==
    IF ~has(S.jobs, jobId) THEN S
    ELSE IF ~found THEN S
    ELSE scheduleExecution(S, S.jobs[jobId].job)

Here == [jobs |-> jobs, timers |-> timers]

Becomes(S) ==
    /\ Cardinality(S.timers) <= MaxTimers
    /\ jobs' = S.jobs
    /\ timers' = S.timers

\* results of the scheduler's methods
NotFound == "Job not found in active scheduler"

Returned(op) == [op |-> op, error |-> NoError]

Threw(op, msg) == [op |-> op, error |-> msg]

NoReturn == Returned("none")

Called ==
    /\ calls < MaxCalls
    /\ calls' = calls + 1

(***************************************************************************)
(* Scheduler.addJob                                                        *)
(***************************************************************************)
addJob(job) ==
    /\ Called
    /\ \E found \in Found(job) : Becomes(scheduleJob(Here, job, found))
    /\ removedSince' = [removedSince EXCEPT ![job.jobId] = FALSE]
    /\ ret' = Returned("addJob")
    /\ UNCHANGED <<isRunning, metrics, updates, loads, dbJobs, inflight>>
    /\ UNCHANGED <<execVars, timeVars, cronVars>>

(***************************************************************************)
(* Scheduler.removeJob                                                     *)
(***************************************************************************)
\* removeJob as it would stand if it also dropped the dispatches in flight
removeJobCancelling(jobId) ==
    /\ Called
    /\ timers' = IF has(jobs, jobId) /\ jobs[jobId].timeoutId # Null
                 THEN clearTimeout(timers, jobs[jobId].timeoutId)
                 ELSE timers
    /\ jobs' = delete(jobs, jobId)
    /\ inflight' = [job \in {x \in DOMAIN inflight : x.jobId # jobId} |-> inflight[job]]
    /\ removedSince' = [removedSince EXCEPT ![jobId] = TRUE]
    /\ ret' = Returned("removeJob")
    /\ UNCHANGED <<isRunning, metrics, updates, loads, dbJobs>>
    /\ UNCHANGED <<execVars, timeVars, cronVars>>

removeJob(jobId) ==
    /\ Called
    /\ timers' = IF has(jobs, jobId) /\ jobs[jobId].timeoutId # Null
                 THEN clearTimeout(timers, jobs[jobId].timeoutId)
                 ELSE timers
    /\ jobs' = delete(jobs, jobId)
    /\ removedSince' = [removedSince EXCEPT ![jobId] = TRUE]
    /\ ret' = Returned("removeJob")
    /\ UNCHANGED <<isRunning, metrics, updates, loads, dbJobs, inflight>>
    /\ UNCHANGED <<execVars, timeVars, cronVars>>

(***************************************************************************)
(* Scheduler.stop                                                          *)
(***************************************************************************)
stop ==
    /\ Called
    /\ isRunning' = FALSE
    /\ timers' = {t \in timers :
                    \A k \in DOMAIN jobs : jobs[k].timeoutId = Null \/ jobs[k].timeoutId # t.id}
    /\ jobs' = << >>
    /\ ret' = Returned("stop")
    /\ UNCHANGED <<metrics, updates, loads, dbJobs, inflight, removedSince>>
    /\ UNCHANGED <<execVars, timeVars, cronVars>>

(***************************************************************************)
(* The timer callback of scheduleExecution: executeJob(job), which counts  *)
(* the execution and calls executor.execute without awaiting it, then      *)
(* rescheduleJob(job.jobId). Neither awaits I/O, so the callback is one    *)
(* step. t.job is the object the timer was armed with.                     *)
(***************************************************************************)
executeJobMetrics(m) == [m EXCEPT !.totalExecutions = @ + 1]

\* the callback as it would stand while it awaited the dispatch before rescheduling
TimerCallbackAwaitingExecute(t) ==
    /\ t \in timers
    /\ metrics.totalExecutions < MaxFires
    /\ metrics' = executeJobMetrics(metrics)
    /\ inflight' = inflight (+) SetToBag({t.job})
    /\ timers' = timers \ {t}
    /\ UNCHANGED <<jobs, isRunning, updates, loads, dbJobs, removedSince, calls, ret>>
    /\ UNCHANGED <<execVars, timeVars, cronVars>>

TimerCallback(t) ==
    /\ t \in timers
    /\ metrics.totalExecutions < MaxFires
    /\ metrics' = executeJobMetrics(metrics)
    /\ inflight' = inflight (+) SetToBag({t.job})
    /\ LET expired == [jobs |-> jobs, timers |-> timers \ {t}]
           nexts == IF has(jobs, t.job.jobId)
                    THEN getNextExecution(jobs[t.job.jobId].schedule)
                    ELSE {FALSE}
       IN  \E found \in nexts : Becomes(rescheduleJob(expired, t.job.jobId, found))
    /\ UNCHANGED <<isRunning, updates, loads, dbJobs, removedSince, calls, ret>>
    /\ UNCHANGED <<execVars, timeVars, cronVars>>

(***************************************************************************)
(* The promise of executor.execute settles: the .then and .catch handlers  *)
(* of executeJob. result is the status of the outcome returned, "success"  *)
(* or "failure", or "rejected".                                            *)
(***************************************************************************)
Settlements == {"success", "failure", "rejected"}

\* the handlers as they would stand if the .catch handler counted nothing
settleMetricsUncaught(m, result) ==
    IF result = "success"
    THEN [m EXCEPT !.successfulExecutions = @ + 1]
    ELSE IF result = "failure"
    THEN [m EXCEPT !.failedExecutions = @ + 1]
    ELSE m

settleMetrics(m, result) ==
    IF result = "success"
    THEN [m EXCEPT !.successfulExecutions = @ + 1]
    ELSE [m EXCEPT !.failedExecutions = @ + 1]

ExecuteSettles(job, result) ==
    /\ job \in BagToSet(inflight)
    /\ inflight' = inflight (-) SetToBag({job})
    /\ metrics' = settleMetrics(metrics, result)
    /\ UNCHANGED <<jobs, timers, isRunning, updates, loads, dbJobs, removedSince, calls, ret>>
    /\ UNCHANGED <<execVars, timeVars, cronVars>>

(***************************************************************************)
(* Scheduler.updateJob, up to its await of db.run                          *)
(***************************************************************************)
UpdateInputs == JobSpecs

RemoveAt(q, i) == [k \in 1..(Len(q) - 1) |-> IF k < i THEN q[k] ELSE q[k + 1]]

\* the calls of updateJob for this jobId that are suspended on db.run
Suspended(q, jobId) == {k \in 1..Len(q) : q[k].jobId = jobId}

\* a call is suspended on db.run; history: it and the calls for the same jobId
\* suspended there already are marked as overlapping
suspend(q, u) ==
    IF Suspended(q, u.jobId) = {}
    THEN Append(q, u)
    ELSE Append([k \in 1..Len(q) |->
                    IF q[k].jobId = u.jobId THEN [q[k] EXCEPT !.overlapped = TRUE] ELSE q[k]],
                [u EXCEPT !.overlapped = TRUE])

\* updateJob as it would stand without its check of the map
updateJobUnchecked(jobId, fields) ==
    /\ Called
    /\ Len(updates) < MaxUpdates
    /\ timers' = IF has(jobs, jobId) /\ jobs[jobId].timeoutId # Null
                 THEN clearTimeout(timers, jobs[jobId].timeoutId)
                 ELSE timers
    /\ updates' = suspend(updates,
            [jobId |-> jobId,
             job |-> IF has(jobs, jobId) THEN jobs[jobId].job
                     ELSE JobOf(jobId, <<fields.schedule, fields.api, fields.type>>),
             overlapped |-> FALSE,
             fields |-> fields])
    /\ UNCHANGED <<jobs, isRunning, metrics, loads, dbJobs, inflight, removedSince, ret>>
    /\ UNCHANGED <<execVars, timeVars, cronVars>>

updateJob(jobId, fields) ==
    /\ Called
    /\ IF ~has(jobs, jobId)
       THEN /\ ret' = Threw("updateJob", NotFound)
            /\ UNCHANGED <<timers, updates>>
       ELSE /\ Len(updates) < MaxUpdates
            /\ timers' = IF jobs[jobId].timeoutId # Null
                         THEN clearTimeout(timers, jobs[jobId].timeoutId)
                         ELSE timers
            /\ updates' = suspend(updates,
                    [jobId |-> jobId, job |-> jobs[jobId].job, overlapped |-> FALSE,
                     fields |-> fields])
            /\ UNCHANGED ret
    /\ UNCHANGED <<jobs, isRunning, metrics, loads, dbJobs, inflight, removedSince>>
    /\ UNCHANGED <<execVars, timeVars, cronVars>>

\* UPDATE jobs SET schedule = ?, api = ?, type = ?, status = 'active' WHERE jobId = ?
dbUpdate(db, jobId, fields) ==
    IF jobId \in DOMAIN db
    THEN [db EXCEPT ![jobId] = [api |-> fields.api, schedule |-> fields.schedule,
                                type |-> fields.type, status |-> "active"]]
    ELSE db

updatedJob(job, fields) ==
    [job EXCEPT !.schedule = fields.schedule, !.api = fields.api, !.type = fields.type]

(***************************************************************************)
(* Scheduler.updateJob, from the result of db.run on: a rejection leaves   *)
(* updateJob; otherwise the job object is rebuilt and scheduled.           *)
(***************************************************************************)
updateJobResumes(i, dbOk) ==
    /\ i \in 1..Len(updates)
    /\ updates' = RemoveAt(updates, i)
    /\ IF dbOk
       THEN LET u == updates[i]
                job == updatedJob(u.job, u.fields)
            IN  /\ dbJobs' = dbUpdate(dbJobs, u.jobId, u.fields)
                /\ \E found \in Found(job) :
                      /\ Becomes(scheduleJob(Here, job, found))
                      /\ removedSince' = IF found
                                         THEN [removedSince EXCEPT ![u.jobId] = FALSE]
                                         ELSE removedSince
                /\ ret' = Returned("updateJob")
       ELSE /\ ret' = Threw("updateJob", DbError)
            /\ UNCHANGED <<jobs, timers, dbJobs, removedSince>>
    /\ UNCHANGED <<isRunning, metrics, loads, inflight, calls>>
    /\ UNCHANGED <<execVars, timeVars, cronVars>>

(***************************************************************************)
(* app.put('/api/jobs/:id') of server.js, the handler that answers PUT     *)
(* /api/jobs/:jobId: it is registered before the router of routes/jobs.js  *)
(* and never passes a request on. A field the body lacks is undefined. A   *)
(* request without schedule or api is answered 400; any other is handed to *)
(* updateJob, whose result decides between 200 and 500.                    *)
(***************************************************************************)
Undefined == "undefined"

MissingFields == "Missing required fields"

Bodies ==
    { [api |-> a, schedule |-> s, type |-> t] :
        a \in {Undefined, "a"},
        s \in {Undefined, EverySecond, LeapDay},
        t \in {Undefined, ExactlyOnce} }

putJob(id, body) ==
    IF body.schedule = Undefined \/ body.api = Undefined
    THEN /\ Called
         /\ ret' = Threw("put", MissingFields)
         /\ UNCHANGED <<jobs, timers, isRunning, metrics, updates, loads, dbJobs,
                        inflight, removedSince>>
         /\ UNCHANGED <<execVars, timeVars, cronVars>>
    ELSE updateJob(id, body)

(***************************************************************************)
(* Scheduler.start, up to the await of Job.getAllActive in loadJobs        *)
(***************************************************************************)
\* start as it would stand without its check of isRunning
startUnchecked ==
    /\ Called
    /\ Len(loads) < MaxLoads
    /\ isRunning' = TRUE
    /\ loads' = Append(loads, "getAllActive")
    /\ UNCHANGED <<jobs, timers, metrics, updates, dbJobs, inflight, removedSince, ret>>
    /\ UNCHANGED <<execVars, timeVars, cronVars>>

start ==
    /\ Called
    /\ IF isRunning
       THEN /\ ret' = Returned("start")
            /\ UNCHANGED <<isRunning, loads>>
       ELSE /\ Len(loads) < MaxLoads
            /\ isRunning' = TRUE
            /\ loads' = Append(loads, "getAllActive")
            /\ UNCHANGED ret
    /\ UNCHANGED <<jobs, timers, metrics, updates, dbJobs, inflight, removedSince>>
    /\ UNCHANGED <<execVars, timeVars, cronVars>>

\* Job.getAllActive: SELECT * FROM jobs WHERE status = 'active', rows in table order
getAllActive(db) ==
    LET ids == {k \in DOMAIN db : db[k].status = "active"}
        F[n \in 0..MaxJobs + 1] ==
            IF n = 0 THEN << >>
            ELSE IF n \in ids
                 THEN Append(F[n - 1], JobOf(n, <<db[n].schedule, db[n].api, db[n].type>>))
                 ELSE F[n - 1]
    IN  F[MaxJobs + 1]

\* for (const job of activeJobs) await this.scheduleJob(job)
RECURSIVE scheduleAll(_, _, _)
scheduleAll(S, rows, found) ==
    IF rows = << >> THEN S
    ELSE scheduleAll(scheduleJob(S, Head(rows), found[Head(rows).jobId]), Tail(rows), found)

(***************************************************************************)
(* Scheduler.loadJobs, from the result of Job.getAllActive on. The awaits  *)
(* of scheduleJob in the loop wait for no I/O, so the loop is one step.    *)
(***************************************************************************)
loadJobs(i) ==
    /\ i \in 1..Len(loads)
    /\ loads' = RemoveAt(loads, i)
    /\ LET rows == getAllActive(dbJobs)
           ids == {rows[k].jobId : k \in 1..Len(rows)}
       IN  \E found \in [ids -> BOOLEAN] :
              /\ \A k \in 1..Len(rows) : found[rows[k].jobId] \in Found(rows[k])
              /\ Becomes(scheduleAll(Here, rows, found))
              /\ removedSince' = [j \in JobIds |->
                                     IF j \in ids /\ found[j] THEN FALSE ELSE removedSince[j]]
    /\ ret' = Returned("start")
    /\ UNCHANGED <<isRunning, metrics, updates, dbJobs, inflight, calls>>
    /\ UNCHANGED <<execVars, timeVars, cronVars>>

(***************************************************************************)
(* The jobs table the scheduler is constructed over.                       *)
(***************************************************************************)
Row(s, status) == [api |-> s[2], schedule |-> s[1], type |-> s[3], status |-> status]

Tables ==
    { <<Row(<<FiveFields, "b", AtLeastOnce>>, "active"),
        Row(<<LeapDay, "b", ExactlyOnce>>, "active")>>,
      <<Row(<<EverySecond, "a", AtLeastOnce>>, "deleted"),
        Row(<<EverySecond, "a", AtLeastOnce>>, "active")>> }

SchedInit ==
    /\ jobs = << >>
    /\ timers = {}
    /\ isRunning = FALSE
    /\ metrics = [totalExecutions |-> 0, successfulExecutions |-> 0, failedExecutions |-> 0]
    /\ updates = << >>
    /\ loads = << >>
    /\ dbJobs \in Tables
    /\ inflight = EmptyBag
    /\ removedSince = [j \in JobIds |-> FALSE]
    /\ calls = 0
    /\ ret = NoReturn

(***************************************************************************)
(* Executor (src/src/services/executor.js).                                *)
(***************************************************************************)
maxRetries == 3
retryDelay == 1000

\* how a call of axios.post can end. validateStatus accepts every status, so
\* a response of any status resolves; a timeout or a refused connection rejects.
Statuses == {199, 200, 299, 300, 500}

TransportErrors == {"timeout of 30000ms exceeded", "connect ECONNREFUSED"}

Responded(st) == [error |-> NoError, status |-> st]

Rejected(msg) == [error |-> msg, status |-> Null]

TransportResults ==
    {Responded(st) : st \in Statuses} \cup {Rejected(msg) : msg \in TransportErrors}

\* response.status >= 200 && response.status < 300
Is2xx(st) == st >= 200 /\ st < 300

\* the response is returned at once only for the other types
ReturnsResponseForOtherTypes(st, type) == type # AtLeastOnce

\* makeRequest: the condition under which the response is returned at once
ReturnsResponse(st, type) == Is2xx(st) \/ type # AtLeastOnce

\* makeRequest: attempt < this.maxRetries
HasRetry(n) == n < maxRetries

\* the same delay before every attempt
ConstantBackoff(n) == retryDelay

\* makeRequest: this.retryDelay * attempt
Backoff(n) == retryDelay * n

\* a message that does not carry the status
GenericError(st) == "Request failed"

\* new Error(`HTTP ${response.status}`).message
HttpError(st) == "HTTP " \o ToString(st)

\* execute: the status of a dispatch whose request returned a response
statusOf(st) == IF Is2xx(st) THEN "success" ELSE "failure"

NoJob == JobOf(Null, <<"", "", "">>)

NoOutcome == [jobId |-> Null, error |-> NoError, status |-> "none", httpStatus |-> Null]

\* the record, and the outcome, of the try block of execute
Completed(job, st) ==
    [jobId |-> job.jobId, error |-> NoError, status |-> statusOf(st), httpStatus |-> st]

\* the record, and the outcome, of the catch block of execute
Failed(job, msg) ==
    [jobId |-> job.jobId, error |-> msg, status |-> "failure", httpStatus |-> Null]

\* a record for each attempt made
createPerAttempt(ex, rec) == ex \o [k \in 1..posts |-> rec]

\* Execution.create, resolved: INSERT INTO executions
create(ex, rec) == Append(ex, rec)

\* an alert for each attempt made
alertPerAttempt(al, rec) ==
    al \o [k \in 1..posts |->
             [jobId |-> rec.jobId, error |-> rec.error, httpStatus |-> rec.httpStatus]]

\* Executor.alertFailure
alertFailure(al, rec) ==
    Append(al, [jobId |-> rec.jobId, error |-> rec.error, httpStatus |-> rec.httpStatus])

ExecInit ==
    /\ pc = "idle"
    /\ execJob = NoJob
    /\ attempt = 0
    /\ lastError = NoError
    /\ response = Null
    /\ thrown = NoError
    /\ outcome = NoOutcome
    /\ executions = << >>
    /\ alerts = << >>
    /\ posts = 0
    /\ attempts = << >>
    /\ sleeps = << >>
    /\ creates = 0
    /\ createErrors = 0

(***************************************************************************)
(* Executor.execute is called: makeRequest starts its loop and calls       *)
(* axios.post for the first attempt.                                       *)
(***************************************************************************)
execute(job) ==
    /\ pc = "idle"
    /\ execJob' = job
    /\ attempt' = 1
    /\ posts' = posts + 1
    /\ pc' = "post"
    /\ UNCHANGED <<lastError, response, thrown, outcome, executions, alerts, attempts,
                   sleeps, creates, createErrors>>
    /\ UNCHANGED <<schedVars, timeVars, cronVars>>

(***************************************************************************)
(* makeRequest: the promise of axios.post settles with r. Either the       *)
(* response is returned to execute, which calls Execution.create in its    *)
(* try block; or makeRequest sleeps before the next attempt; or the loop   *)
(* ends and lastError is thrown to the catch block of execute, which calls *)
(* Execution.create there.                                                 *)
(***************************************************************************)
PostSettles(r) ==
    /\ pc = "post"
    /\ attempts' = Append(attempts, r)
    /\ IF r.error = NoError
       THEN IF ReturnsResponse(r.status, execJob.type)
            THEN /\ response' = r.status
                 /\ creates' = creates + 1
                 /\ pc' = "create"
                 /\ UNCHANGED <<lastError, thrown, sleeps>>
            ELSE IF HasRetry(attempt)
                 THEN /\ response' = r.status
                      /\ sleeps' = Append(sleeps, Backoff(attempt))
                      /\ pc' = "sleepAfterResponse"
                      /\ UNCHANGED <<lastError, thrown, creates>>
                 ELSE /\ response' = r.status
                      /\ lastError' = HttpError(r.status)
                      /\ thrown' = HttpError(r.status)
                      /\ creates' = creates + 1
                      /\ pc' = "createInCatch"
                      /\ UNCHANGED sleeps
       ELSE /\ lastError' = r.error
            /\ IF HasRetry(attempt)
               THEN /\ sleeps' = Append(sleeps, Backoff(attempt))
                    /\ pc' = "sleepAfterError"
                    /\ UNCHANGED <<response, thrown, creates>>
               ELSE /\ thrown' = r.error
                    /\ creates' = creates + 1
                    /\ pc' = "createInCatch"
                    /\ UNCHANGED <<response, sleeps>>
    /\ UNCHANGED <<execJob, attempt, outcome, executions, alerts, posts, createErrors>>
    /\ UNCHANGED <<schedVars, timeVars, cronVars>>

(***************************************************************************)
(* makeRequest: the sleep ends. After a response, lastError is assigned    *)
(* now; then attempt++ and the next axios.post.                            *)
(***************************************************************************)
SleepEnds ==
    /\ pc \in {"sleepAfterResponse", "sleepAfterError"}
    /\ lastError' = IF pc = "sleepAfterResponse" THEN HttpError(response) ELSE lastError
    /\ attempt' = attempt + 1
    /\ posts' = posts + 1
    /\ pc' = "post"
    /\ UNCHANGED <<execJob, response, thrown, outcome, executions, alerts, attempts,
                   sleeps, creates, createErrors>>
    /\ UNCHANGED <<schedVars, timeVars, cronVars>>

(***************************************************************************)
(* execute, try block: the promise of Execution.create settles. Resolved:  *)
(* the record is stored, a failure is alerted, the outcome returned.       *)
(* Rejected: the catch block runs and calls Execution.create again.        *)
(***************************************************************************)
CreateSettles(ok) ==
    /\ pc = "create"
    /\ IF ok
       THEN LET rec == Completed(execJob, response)
            IN  /\ executions' = create(executions, rec)
                /\ alerts' = IF rec.status = "failure" THEN alertFailure(alerts, rec)
                             ELSE alerts
                /\ outcome' = rec
                /\ pc' = "returned"
                /\ UNCHANGED <<thrown, creates, createErrors>>
       ELSE /\ thrown' = DbError
            /\ createErrors' = createErrors + 1
            /\ creates' = creates + 1
            /\ pc' = "createInCatch"
            /\ UNCHANGED <<executions, alerts, outcome>>
    /\ UNCHANGED <<execJob, attempt, lastError, response, posts, attempts, sleeps>>
    /\ UNCHANGED <<schedVars, timeVars, cronVars>>

(***************************************************************************)
(* execute, catch block: the promise of Execution.create settles.          *)
(* Resolved: the record is stored, the failure alerted, the outcome        *)
(* returned. Rejected: nothing catches it, and the promise of execute      *)
(* rejects.                                                                *)
(***************************************************************************)
CreateInCatchSettles(ok) ==
    /\ pc = "createInCatch"
    /\ IF ok
       THEN LET rec == Failed(execJob, thrown)
            IN  /\ executions' = create(executions, rec)
                /\ alerts' = alertFailure(alerts, rec)
                /\ outcome' = rec
                /\ pc' = "returned"
                /\ UNCHANGED createErrors
       ELSE /\ createErrors' = createErrors + 1
            /\ pc' = "rejected"
            /\ UNCHANGED <<executions, alerts, outcome>>
    /\ UNCHANGED <<execJob, attempt, lastError, response, thrown, posts, attempts, sleeps,
                   creates>>
    /\ UNCHANGED <<schedVars, timeVars, cronVars>>

(***************************************************************************)
(* The timers of one job on a clock. Instants and delays are in whole      *)
(* seconds: the 647 ms of MAX_DELAY are dropped, which moves the end of a  *)
(* capped timer by less than a second.                                     *)
(***************************************************************************)
MAX_DELAY == 2147483647

Seconds(ms) == ms \div 1000

\* the distances, in seconds, from an instant to the next one a schedule
\* matches: a second, a day, the longest timer, one second more, 365 days
Delays == {1, 86400, Seconds(MAX_DELAY), Seconds(MAX_DELAY) + 1, 31536000}

NoTimer == [executionTime |-> Null, fireAt |-> Null]

\* scheduleExecution: if (delay > MAX_DELAY) delay = MAX_DELAY
cappedDelay(delay) ==
    IF delay > Seconds(MAX_DELAY) THEN Seconds(MAX_DELAY) ELSE delay

\* scheduleExecution(job, executionTime, delay) called at instant `at`
scheduleExecutionAt(at, executionTime) ==
    [executionTime |-> executionTime, fireAt |-> at + cappedDelay(executionTime - at)]

\* CronParser.getNextExecution(at, schedule): the instants it can return when
\* the occurrence `ahead` has been computed before: that occurrence while it
\* is still ahead, otherwise one that lies some distance after `at`
nextExecutions(at, ahead) ==
    IF at < ahead THEN {ahead} ELSE {at + d : d \in Delays}

TimeInit ==
    /\ now = 0
    /\ pending = NoTimer
    /\ dispatchedAt = << >>

(***************************************************************************)
(* scheduleJob for the job: getNextExecution(now, schedule), then          *)
(* scheduleExecution with the delay from now to that instant.              *)
(***************************************************************************)
scheduleJobAt(d) ==
    /\ pending = NoTimer
    /\ dispatchedAt = << >>
    /\ pending' = scheduleExecutionAt(now, now + d)
    /\ UNCHANGED <<now, dispatchedAt>>
    /\ UNCHANGED <<schedVars, execVars, cronVars>>

(***************************************************************************)
(* The timer elapses: its callback runs executeJob, which dispatches the   *)
(* job, then rescheduleJob, which computes the next execution from the     *)
(* clock and arms the next timer.                                          *)
(***************************************************************************)
TimerElapses ==
    /\ pending # NoTimer
    /\ Len(dispatchedAt) < MaxChain
    /\ now' = pending.fireAt
    /\ dispatchedAt' = Append(dispatchedAt,
            [executionTime |-> pending.executionTime, at |-> pending.fireAt])
    /\ \E next \in nextExecutions(pending.fireAt, pending.executionTime) :
          pending' = scheduleExecutionAt(pending.fireAt, next)
    /\ UNCHANGED <<schedVars, execVars, cronVars>>

(***************************************************************************)
(* The timer elapses and its callback runs `late` after the instant the    *)
(* timer was armed for: setTimeout runs a callback no earlier than its     *)
(* delay, and later when the event loop is busy.                           *)
(***************************************************************************)
Lateness == {0, 1, 3}

TimerElapsesLate(late) ==
    /\ pending # NoTimer
    /\ Len(dispatchedAt) < MaxChain
    /\ LET actualTime == pending.fireAt + late
       IN  /\ now' = actualTime
           /\ dispatchedAt' = Append(dispatchedAt,
                   [executionTime |-> pending.executionTime, at |-> actualTime])
           /\ \E next \in nextExecutions(actualTime, pending.executionTime) :
                 pending' = scheduleExecutionAt(actualTime, next)
    /\ UNCHANGED <<schedVars, execVars, cronVars>>

(***************************************************************************)
(* executeJob, the drift and its running average. The average is a         *)
(* quotient of integers, kept exact as numerator and denominator; the      *)
(* code holds it as a double.                                              *)
(***************************************************************************)
Quotient(num, den) == [num |-> num, den |-> den]

\* drift = actualTime.getTime() - scheduledTime.getTime()
driftOf(fire) == fire.at - fire.executionTime

\* if (drift > 0) averageDelay =
\*     (averageDelay * (totalExecutions - 1) + drift) / totalExecutions
\* with totalExecutions already incremented for this fire
averageDelayUpdate(averageDelay, totalExecutions, drift) ==
    IF drift > 0
    THEN Quotient(averageDelay.num * (totalExecutions - 1) + drift * averageDelay.den,
                  averageDelay.den * totalExecutions)
    ELSE averageDelay

\* this.metrics.averageDelay after these fires, of a scheduler that dispatches
\* nothing else: 0 at construction, then updated by executeJob at each fire
RECURSIVE averageDelayAfter(_)
averageDelayAfter(fires) ==
    IF fires = << >>
    THEN Quotient(0, 1)
    ELSE LET total == Len(fires)
         IN  averageDelayUpdate(averageDelayAfter(SubSeq(fires, 1, total - 1)),
                                total, driftOf(fires[total]))

(***************************************************************************)
(* CronParser (src/src/utils/cronParser.js). Strings are sequences of      *)
(* characters; the operators below are the string functions of JavaScript  *)
(* the parser calls, on the characters the expressions of this model use.  *)
(***************************************************************************)
charAt(str, i) == SubSeq(str, i, i)

IsSpace(c) == c \in {" ", "\t", "\n"}

Digits == <<"0", "1", "2", "3", "4", "5", "6", "7", "8", "9">>

IsDigit(c) == \E d \in 1..Len(Digits) : Digits[d] = c

digitValue(c) == (CHOOSE d \in 1..Len(Digits) : Digits[d] = c) - 1

\* String.prototype.trim
RECURSIVE trimStart(_)
trimStart(str) ==
    IF Len(str) > 0 /\ IsSpace(charAt(str, 1))
    THEN trimStart(SubSeq(str, 2, Len(str)))
    ELSE str

RECURSIVE trimEnd(_)
trimEnd(str) ==
    IF Len(str) > 0 /\ IsSpace(charAt(str, Len(str)))
    THEN trimEnd(SubSeq(str, 1, Len(str) - 1))
    ELSE str

\* a variant that leaves the white space at the ends in place
untrimmed(str) == str

trim(str) == trimEnd(trimStart(str))

\* the end of the run of characters of the given kind that starts at i
RECURSIVE runEnd(_, _, _)
runEnd(str, i, space) ==
    IF i <= Len(str) /\ IsSpace(charAt(str, i)) = space
    THEN runEnd(str, i + 1, space)
    ELSE i

\* String.prototype.split(/\s+/): the pieces between the runs of white space;
\* a piece at either end, or the one piece of a string without white space,
\* may be empty
RECURSIVE splitSpaces(_)
splitSpaces(str) ==
    LET e == runEnd(str, 1, FALSE)
    IN  IF e > Len(str) THEN <<str>>
        ELSE <<SubSeq(str, 1, e - 1)>>
             \o splitSpaces(SubSeq(str, runEnd(str, e, TRUE), Len(str)))

\* String.prototype.includes, for a separator of one character
includes(str, sep) == \E i \in 1..Len(str) : charAt(str, i) = sep

\* String.prototype.split, for a separator of one character
RECURSIVE split(_, _)
split(str, sep) ==
    IF ~includes(str, sep) THEN <<str>>
    ELSE LET i == CHOOSE k \in 1..Len(str) :
                     /\ charAt(str, k) = sep
                     /\ \A m \in 1..(k - 1) : charAt(str, m) # sep
         IN  <<SubSeq(str, 1, i - 1)>> \o split(SubSeq(str, i + 1, Len(str)), sep)

\* the value Number gives for a token that is not a numeral
NaN == -1

isNaN(x) == x = NaN

\* Number(token) for the tokens of this model: the empty string is 0, a string
\* of decimal digits is its value, every other token is NaN
RECURSIVE decimal(_, _)
decimal(str, acc) ==
    IF Len(str) = 0 THEN acc
    ELSE decimal(SubSeq(str, 2, Len(str)), 10 * acc + digitValue(charAt(str, 1)))

Number(str) ==
    IF \A i \in 1..Len(str) : IsDigit(charAt(str, i)) THEN decimal(str, 0) ELSE NaN

\* the comparisons of JavaScript: false when either side is NaN
lt(a, b) == ~isNaN(a) /\ ~isNaN(b) /\ a < b

gt(a, b) == lt(b, a)

Lower == <<"a", "d", "e", "f", "h", "i", "m", "n", "o", "r", "s", "t", "u", "w", "x">>

Upper == <<"A", "D", "E", "F", "H", "I", "M", "N", "O", "R", "S", "T", "U", "W", "X">>

\* String.prototype.toUpperCase
RECURSIVE toUpperCase(_)
toUpperCase(str) ==
    IF Len(str) = 0 THEN str
    ELSE LET c == charAt(str, 1)
         IN  (IF \E k \in 1..Len(Lower) : Lower[k] = c
              THEN Upper[CHOOSE k \in 1..Len(Lower) : Lower[k] = c]
              ELSE c) \o toUpperCase(SubSeq(str, 2, Len(str)))

(***************************************************************************)
(* A parsed field is [type, values], values being a sequence; a field that *)
(* made the parser throw carries the message of the error.                 *)
(***************************************************************************)
Parsed(type, values) == [type |-> type, error |-> NoError, values |-> values]

Throws(msg) == [type |-> "none", error |-> msg, values |-> << >>]

\* Array.from({ length: end - start + 1 }, (_, i) => start + i): no element
\* when the length is NaN
rangeValues(startNum, endNum) ==
    IF isNaN(startNum) \/ isNaN(endNum) THEN << >>
    ELSE [i \in 1..(endNum - startNum + 1) |-> startNum + i - 1]

\* Array.prototype.map(Number)
numbers(parts) == [i \in 1..Len(parts) |-> Number(parts[i])]

(***************************************************************************)
(* CronParser.parseField                                                   *)
(***************************************************************************)
parseField(field, min, max) ==
    IF field = "*" THEN Parsed("all", << >>)
    ELSE IF includes(field, "-")
    THEN LET parts == numbers(split(field, "-"))
             startNum == parts[1]
             endNum == parts[2]
         IN  IF lt(startNum, min) \/ gt(endNum, max) \/ gt(startNum, endNum)
             THEN Throws("Invalid range in field: " \o field)
             ELSE Parsed("range", rangeValues(startNum, endNum))
    ELSE IF includes(field, ",")
    THEN LET values == numbers(split(field, ","))
         IN  IF \E i \in 1..Len(values) : lt(values[i], min) \/ gt(values[i], max)
             THEN Throws("Invalid value in list: " \o field)
             ELSE Parsed("list", values)
    ELSE LET value == Number(field)
         IN  IF lt(value, min) \/ gt(value, max)
             THEN Throws("Invalid value: " \o field)
             ELSE Parsed("single", <<value>>)

\* the keys of dayMap, SUN first: the value of a key is its position less one
DayNames == <<"SUN", "MON", "TUE", "WED", "THU", "FRI", "SAT">>

\* dayMap[key] !== undefined
inDayMap(key) == \E d \in 1..Len(DayNames) : DayNames[d] = key

dayMap(key) == (CHOOSE d \in 1..Len(DayNames) : DayNames[d] = key) - 1

\* a variant that counts upward from current to endNum and never wraps
dayRangeUpward(current, endNum) ==
    [i \in 1..(endNum - current + 1) |-> current + i - 1]

\* the loop of parseDayOfWeek: push current, stop at endNum, else step modulo 7
RECURSIVE dayRange(_, _)
dayRange(current, endNum) ==
    IF current = endNum THEN <<current>>
    ELSE <<current>> \o dayRange((current + 1) % 7, endNum)

\* the token of a list or of a single value: a name of dayMap, or Number(token)
dayValue(token) ==
    IF inDayMap(toUpperCase(token)) THEN dayMap(toUpperCase(token)) ELSE Number(token)

(***************************************************************************)
(* CronParser.parseDayOfWeek                                               *)
(***************************************************************************)
parseDayOfWeek(field) ==
    IF field = "*" THEN Parsed("all", << >>)
    ELSE IF includes(field, "-")
    THEN LET parts == split(field, "-")
             startKey == toUpperCase(parts[1])
             endKey == toUpperCase(parts[2])
         IN  IF ~inDayMap(startKey) \/ ~inDayMap(endKey)
             THEN Throws("Invalid day range: " \o field)
             ELSE Parsed("range", dayRange(dayMap(startKey), dayMap(endKey)))
    ELSE IF includes(field, ",")
    THEN LET parts == split(field, ",")
         IN  Parsed("list", [i \in 1..Len(parts) |-> dayValue(parts[i])])
    ELSE LET value == dayValue(field)
         IN  IF lt(value, 0) \/ gt(value, 6)
             THEN Throws("Invalid day of week: " \o field)
             ELSE Parsed("single", <<value>>)

FieldCountError ==
    "Invalid CRON expression. Expected format: \"second minute hour day month dayOfWeek\""

NoField == Throws("not parsed")

\* the schedule object parse returns, or the error it throws
Schedule(err, f) ==
    [error |-> err, second |-> f[1], minute |-> f[2], hour |-> f[3], day |-> f[4],
     month |-> f[5], dayOfWeek |-> f[6]]

(***************************************************************************)
(* CronParser.parse: the fields are parsed in order, and the first error   *)
(* thrown is the one parse throws.                                         *)
(***************************************************************************)
cronParse(expression) ==
    LET parts == splitSpaces(trim(expression))
    IN  IF Len(parts) # 6
        THEN Schedule(FieldCountError, [i \in 1..6 |-> NoField])
        ELSE LET f == <<parseField(parts[1], 0, 59), parseField(parts[2], 0, 59),
                        parseField(parts[3], 0, 23), parseField(parts[4], 1, 31),
                        parseField(parts[5], 1, 12), parseDayOfWeek(parts[6])>>
                 bad == {i \in 1..6 : f[i].error # NoError}
             IN  IF bad = {} THEN Schedule(NoError, f)
                 ELSE Schedule(f[CHOOSE i \in bad : \A k \in bad : i <= k].error,
                               [i \in 1..6 |-> NoField])

\* the schedule variable before parse has run
NotParsed == Schedule("pending", [i \in 1..6 |-> NoField])

(***************************************************************************)
(* Date. A Date is an instant: whole seconds since 00:00:00 of Monday      *)
(* 1 January 2024 in the standard time of the zone, and the milliseconds   *)
(* within the second. Local time is what the getters read and the setters  *)
(* write; a zone is its daylight-saving offset in seconds and the instant  *)
(* that offset ends at (clocks go back), as in zones of the southern       *)
(* hemisphere, or no daylight saving at all.                               *)
(***************************************************************************)
Date(time, ms) == [ms |-> ms, time |-> time]

Zone(dst, dstEnds) == [dst |-> dst, dstEnds |-> dstEnds]

\* local time of the instant t (ECMAScript LocalTime)
LocalTime(t, tz) == t + (IF t < tz.dstEnds THEN tz.dst ELSE 0)

\* the instant of a local time (ECMAScript UTC): a local time that occurs
\* twice is taken with the offset before the transition, the earlier instant
UTC(local, tz) ==
    LET possible == {t \in {local - tz.dst, local} : LocalTime(t, tz) = local}
    IN  CHOOSE t \in possible : \A u \in possible : t <= u

getSeconds(date, tz) == LocalTime(date.time, tz) % 60

getMinutes(date, tz) == (LocalTime(date.time, tz) \div 60) % 60

getHours(date, tz) == (LocalTime(date.time, tz) \div (60 * 60)) % 24

\* days since 1 January 2024, local time
dayOfYear(date, tz) == LocalTime(date.time, tz) \div (24 * 60 * 60)

\* 1 January 2024 is a Monday
getDay(date, tz) == (dayOfYear(date, tz) + 1) % 7

\* the months of 2024
MonthLengths == <<31, 29, 31, 30, 31, 30, 31, 31, 30, 31, 30, 31>>

RECURSIVE monthAndDate(_, _)
monthAndDate(days, m) ==
    IF days < MonthLengths[m] THEN <<m, days + 1>>
    ELSE monthAndDate(days - MonthLengths[m], m + 1)

\* months are 0-indexed
getMonth(date, tz) == monthAndDate(dayOfYear(date, tz), 1)[1] - 1

getDate(date, tz) == monthAndDate(dayOfYear(date, tz), 1)[2]

\* the setters rebuild the instant from the local time they changed
setMilliseconds(date, ms, tz) == Date(UTC(LocalTime(date.time, tz), tz), ms)

setSeconds(date, sec, tz) ==
    LET local == LocalTime(date.time, tz)
    IN  Date(UTC(local - (local % 60) + sec, tz), date.ms)

(***************************************************************************)
(* CronParser.fieldMatches, CronParser.matchesSchedule                     *)
(***************************************************************************)
\* a variant that takes every value
matchesAnyValue(value, field) == TRUE

fieldMatches(value, field) ==
    IF field.type = "all" THEN TRUE
    ELSE \E i \in 1..Len(field.values) : field.values[i] = value

matchesSchedule(date, sch, tz) ==
    /\ fieldMatches(getSeconds(date, tz), sch.second)
    /\ fieldMatches(getMinutes(date, tz), sch.minute)
    /\ fieldMatches(getHours(date, tz), sch.hour)
    /\ fieldMatches(getDate(date, tz), sch.day)
    /\ fieldMatches(getMonth(date, tz) + 1, sch.month)
    /\ fieldMatches(getDay(date, tz), sch.dayOfWeek)

(***************************************************************************)
(* CronParser.getNextExecution(fromDate, schedule). The loop is followed   *)
(* for its first MaxProbes and for its last MaxProbes iterations; a call   *)
(* that needs the iterations between them has no result here.              *)
(***************************************************************************)
maxAttempts == 365 * 24 * 60 * 60

MaxProbes == 64

NoDate == Date(0 - 1, 0)

\* the call threw 'Could not find next execution time within reasonable range'
NoExecutionFound == Date(0 - 2, 0)

\* the call needs iterations of the loop that are not followed
Unexplored == Date(0 - 3, 0)

NotFollowed(tried) == ~(tried < MaxProbes) /\ tried < maxAttempts - MaxProbes

nextSecond(next, tz) == setSeconds(next, getSeconds(next, tz) + 1, tz)

\* the loop as it would stand if it returned `next` when it runs out of attempts
RECURSIVE probeReturningLast(_, _, _, _)
probeReturningLast(next, sch, tz, tried) ==
    IF ~(tried < maxAttempts) THEN next
    ELSE IF NotFollowed(tried) THEN Unexplored
    ELSE IF matchesSchedule(next, sch, tz) THEN next
    ELSE probeReturningLast(nextSecond(next, tz), sch, tz, tried + 1)

RECURSIVE probe(_, _, _, _)
probe(next, sch, tz, tried) ==
    IF ~(tried < maxAttempts) THEN NoExecutionFound
    ELSE IF NotFollowed(tried) THEN Unexplored
    ELSE IF matchesSchedule(next, sch, tz) THEN next
    ELSE probe(nextSecond(next, tz), sch, tz, tried + 1)

getNextExecutionFrom(from, sch, tz) ==
    LET truncated == setMilliseconds(from, 0, tz)
    IN  probe(setSeconds(truncated, getSeconds(truncated, tz) + 1, tz), sch, tz, 0)

(***************************************************************************)
(* The inputs of the parser and of the calculator.                         *)
(***************************************************************************)
DayNameSet == {DayNames[d] : d \in 1..Len(DayNames)}

Expressions ==
    {"* * * * * " \o a \o "-" \o b : a \in DayNameSet, b \in DayNameSet}
    \cup
    { "* * * * * *", "0 * * * * *", "0 0 * * * *", "31 10-15 1 * * MON-FRI",
      "0 0 0 1 2 THU", "  0\t0 0   1 2 thu ", "59 59 23 31 1 3", "0,1 0 0 1 2 4",
      "", "*", "* * * * *", "* * * * * * *", "0 0 0 1 2 THU 2024",
      "abc * * * * *", "1,,3 * * * * *", "a-b * * * * *", "-5 * * * * *",
      "60 * * * * *", "5-3 * * * * *", "* 0-60 * * * *", "* 5,x * * * *",
      "* * 24 * * *", "* * * 0 * *", "* * * 1,32 * *", "* * * * 13 *",
      "* * * * * 7", "* * * * * 9", "* * * * * 3", "* * * * * mon",
      "* * * * * XYZ", "* * * * * MONDAY", "* * * * * MON,XYZ", "* * * * * MON,9",
      "* * * * * MON-XYZ", "* * * * * 1-5", "* * * * * MON-5",
      "* * * * * MON,3,FRI", "* * * * * 1,3,5", "* * * * * fri-Mon" }

\* no daylight saving
FixedZone == Zone(0, 0)

\* daylight saving of one hour until 03:00 of Sunday 7 April 2024, which is
\* 02:00 standard time
DstEnds == 97 * 24 * 60 * 60 + 2 * 60 * 60

SouthernZone == Zone(60 * 60, DstEnds)

Zones == {FixedZone, SouthernZone}

\* the instant of day d (0 is 1 January) at h:m:s standard time
At(d, h, m, s) == ((d * 24 + h) * 60 + m) * 60 + s

FromDates ==
    { Date(At(0, 12, 0, 0), 500), Date(At(0, 12, 0, 0), 0), Date(At(0, 12, 0, 59), 999),
      Date(At(2, 1, 12, 31), 0), Date(At(2, 1, 12, 30), 250), Date(At(2, 1, 12, 30), 0),
      Date(At(2, 2, 12, 31), 0), Date(At(5, 1, 12, 31), 0),
      Date(At(30, 23, 59, 58), 500),
      Date(DstEnds, 500), Date(DstEnds - 2, 500) }

CronInit(expressions, zones, dates) ==
    /\ cronExpression \in expressions
    /\ timeZone \in zones
    /\ fromDate \in dates
    /\ schedule = NotParsed
    /\ nextExecution = NoDate
    /\ matched = << >>

\* CronParser.parse(cronExpression)
Parse ==
    /\ schedule = NotParsed
    /\ schedule' = cronParse(cronExpression)
    /\ UNCHANGED <<cronExpression, timeZone, fromDate, nextExecution, matched>>
    /\ UNCHANGED <<schedVars, execVars, timeVars>>

\* CronParser.getNextExecution(fromDate, schedule)
NextExecution ==
    /\ schedule.error = NoError
    /\ nextExecution = NoDate
    /\ getNextExecutionFrom(fromDate, schedule, timeZone) # Unexplored
    /\ nextExecution' = getNextExecutionFrom(fromDate, schedule, timeZone)
    /\ UNCHANGED <<cronExpression, timeZone, fromDate, schedule, matched>>
    /\ UNCHANGED <<schedVars, execVars, timeVars>>

\* CronParser.matchesSchedule(fromDate, schedule)
Matches ==
    /\ schedule.error = NoError
    /\ matched = << >>
    /\ matched' = <<matchesSchedule(fromDate, schedule, timeZone)>>
    /\ UNCHANGED <<cronExpression, timeZone, fromDate, schedule, nextExecution>>
    /\ UNCHANGED <<schedVars, execVars, timeVars>>

(***************************************************************************)
(* CronParser.getNextExecution(fromDate, schedule) when none of its first  *)
(* maxAttempts - left probes matches: the loop is then at its iteration    *)
(* maxAttempts - left, with `next` that many seconds after its first probe *)
(* (in a zone without daylight saving), and is followed from there to its  *)
(* end.                                                                    *)
(***************************************************************************)
MaxLeft == 3

\* next.setMilliseconds(0); next.setSeconds(next.getSeconds() + 1)
firstProbe(from, tz) == nextSecond(setMilliseconds(from, 0, tz), tz)

\* `next` at the iteration maxAttempts - left
nextWith(left, from, tz) == Date(firstProbe(from, tz).time + (maxAttempts - left), 0)

\* the schedule takes the date, the month and the day of week of day d
matchesDay(d, sch, tz) ==
    LET noon == Date(At(d, 12, 0, 0), 0)
    IN  /\ fieldMatches(getDate(noon, tz), sch.day)
        /\ fieldMatches(getMonth(noon, tz) + 1, sch.month)
        /\ fieldMatches(getDay(noon, tz), sch.dayOfWeek)

\* no probe of the loop before `next` matches: none on a day before that of
\* `next`, and none in the seconds of that day before `next`
NoneMatchedBefore(next, from, sch, tz) ==
    LET midnight == next.time - (next.time % (24 * 60 * 60))
    IN  /\ next.time - midnight < MaxProbes
        /\ \A d \in dayOfYear(firstProbe(from, tz), tz)..(dayOfYear(next, tz) - 1) :
              ~matchesDay(d, sch, tz)
        /\ \A t \in midnight..(next.time - 1) : ~matchesSchedule(Date(t, 0), sch, tz)

LastProbes(left) ==
    /\ schedule.error = NoError
    /\ nextExecution = NoDate
    /\ timeZone = FixedZone
    /\ NoneMatchedBefore(nextWith(left, fromDate, timeZone), fromDate, schedule, timeZone)
    /\ nextExecution' =
           probe(nextWith(left, fromDate, timeZone), schedule, timeZone, maxAttempts - left)
    /\ UNCHANGED <<cronExpression, timeZone, fromDate, schedule, matched>>
    /\ UNCHANGED <<schedVars, execVars, timeVars>>

Init ==
    /\ SchedInit /\ ExecInit /\ TimeInit
    /\ CronInit({"* * * * * *"}, {FixedZone}, {Date(At(0, 12, 0, 0), 500)})

Next ==
    \/ \E j \in JobIds, s \in JobSpecs : addJob(JobOf(j, s))
    \/ \E j \in JobIds, s \in UpdateInputs : updateJob(j, Fields(s))
    \/ \E i \in 1..MaxUpdates, dbOk \in BOOLEAN : updateJobResumes(i, dbOk)
    \/ \E j \in JobIds : removeJob(j)
    \/ start
    \/ \E i \in 1..MaxLoads : loadJobs(i)
    \/ stop
    \/ \E t \in timers : TimerCallback(t)
    \/ \E job \in BagToSet(inflight), r \in Settlements : ExecuteSettles(job, r)

Spec == Init /\ [][Next]_vars

NextExec ==
    \/ \E s \in {x \in JobSpecs : parse(x[1])} : execute(JobOf(1, s))
    \/ \E r \in TransportResults : PostSettles(r)
    \/ SleepEnds
    \/ \E ok \in BOOLEAN : CreateSettles(ok)
    \/ \E ok \in BOOLEAN : CreateInCatchSettles(ok)

SpecExec == Init /\ [][NextExec]_vars

NextTime ==
    \/ \E d \in Delays : scheduleJobAt(d)
    \/ TimerElapses

SpecTime == Init /\ [][NextTime]_vars

NextPut ==
    \/ \E j \in JobIds, s \in JobSpecs : addJob(JobOf(j, s))
    \/ \E j \in JobIds, body \in Bodies : putJob(j, body)
    \/ \E i \in 1..MaxUpdates, dbOk \in BOOLEAN : updateJobResumes(i, dbOk)

SpecPut == Init /\ [][NextPut]_vars

(***************************************************************************)
(* Jobs added once and never removed, updated or stopped: the only steps   *)
(* are addJob of a job that is not in the map, the timer callbacks and the *)
(* settlements of the dispatches. A timer armed with setTimeout elapses    *)
(* after its delay, so the callback of an armed timer of a job is not      *)
(* postponed for ever: weak fairness for the callbacks of each job.        *)
(***************************************************************************)
FireOf(j) == \E t \in LiveTimers(timers, j) : TimerCallback(t)

NextFire ==
    \/ \E j \in JobIds, s \in JobSpecs : ~has(jobs, j) /\ addJob(JobOf(j, s))
    \/ \E j \in JobIds : FireOf(j)
    \/ \E job \in BagToSet(inflight), r \in Settlements : ExecuteSettles(job, r)

SpecFire == Init /\ [][NextFire]_vars /\ \A j \in JobIds : WF_vars(FireOf(j))

NextDrift ==
    \/ \E d \in Delays : scheduleJobAt(d)
    \/ \E late \in Lateness : TimerElapsesLate(late)

SpecDrift == Init /\ [][NextDrift]_vars

\* schedules that match on one day of the year, on no day, or every second,
\* and reference instants in the first seconds of 1 January
HorizonExpressions ==
    { "* * * * * *", "5 0 0 31 12 *", "3,5 0 0 31 12 *", "0 0 0 29 2 *",
      "0 0 0 30 2 *", "a-b * * * * *", "abc * * * * *", "60 * * * * *" }

HorizonDates == {Date(At(0, 0, 0, s), ms) : s \in 0..6, ms \in {0, 500}}

InitHorizon ==
    /\ SchedInit /\ ExecInit /\ TimeInit
    /\ CronInit(HorizonExpressions, {FixedZone}, HorizonDates)

NextHorizon ==
    \/ Parse
    \/ NextExecution
    \/ \E left \in 0..MaxLeft : LastProbes(left)

SpecHorizon == InitHorizon /\ [][NextHorizon]_vars

InitCron ==
    /\ SchedInit /\ ExecInit /\ TimeInit
    /\ CronInit(Expressions, Zones, FromDates)

NextCron ==
    \/ Parse
    \/ NextExecution
    \/ Matches

SpecCron == InitCron /\ [][NextCron]_vars

(***************************************************************************)
(* Properties of the scheduler, checked under Spec.                        *)
(***************************************************************************)

\* C1: for every jobId at most one timer is armed at any time, whatever
\* sequence of add, update, reschedule and remove ran.
C1_AtMostOneLiveTimer ==
    \A j \in JobIds : Cardinality(LiveTimers(timers, j)) <= 1

\* a dispatch of job j starts in this step
DispatchStarts(j) ==
    \E job \in BagToSet(inflight') :
        job.jobId = j /\ CopiesIn(job, inflight') > CopiesIn(job, inflight)

\* C2: once removeJob(j) has run, no dispatch of j starts until j is
\* scheduled again; a job just added or updated is no exception.
C2_NoDispatchAfterRemove ==
    [][\A j \in JobIds : removedSince[j] => ~DispatchStarts(j)]_vars

\* C3: when stop returns, no timer is armed and the job map is empty.
C3_StopLeavesNothing ==
    [][stop => (timers' = {} /\ DOMAIN jobs' = {})]_vars

\* the timer whose handle the entry of j holds is armed, for the entry's job
Rearmed(jb, tm, j) ==
    /\ has(jb, j)
    /\ jb[j].timeoutId # Null
    /\ \E u \in tm : u.id = jb[j].timeoutId /\ u.job = jb[j].job

\* C4: a timer callback of a job that is in the map, on a schedule that always
\* has a next execution, ends with the next timer of the job armed while the
\* dispatch it started is still pending; it leaves every other timer armed;
\* and dispatches in flight keep no armed timer from firing.
C4_RearmsWithoutWaiting ==
    /\ [][\A t \in timers :
            (/\ TimerCallback(t)
             /\ has(jobs, t.job.jobId)
             /\ jobs[t.job.jobId].schedule = EverySecond)
            => /\ CopiesIn(t.job, inflight') = CopiesIn(t.job, inflight) + 1
               /\ Rearmed(jobs', timers', t.job.jobId)
               /\ (timers \ {t}) \subseteq timers']_vars
    /\ [](\A t \in timers :
            metrics.totalExecutions < MaxFires => ENABLED TimerCallback(t))

\* two dispatches of one job are pending and its next timer is armed
C4_Witness ==
    \E job \in BagToSet(inflight) :
        /\ CopiesIn(job, inflight) = 2
        /\ Rearmed(jobs, timers, job.jobId)
        /\ jobs[job.jobId].job = job

\* C11: addJob, or updateJob, with a schedule expression that parse rejects
\* ends with an error for its caller and arms no timer.
C11_BadScheduleSurfaces ==
    [][/\ \A j \in JobIds, s \in JobSpecs :
            (addJob(JobOf(j, s)) /\ ~parse(s[1]))
            => (ret'.error # NoError /\ timers' \subseteq timers)
       /\ \A i \in 1..Len(updates) :
            (updateJobResumes(i, TRUE) /\ ~parse(updates[i].fields.schedule))
            => (ret'.error # NoError /\ timers' \subseteq timers)]_vars

\* C12: updateJob for a jobId that has no entry fails with the error of a job
\* that is not active and leaves the job map, the timers, the calls suspended
\* on the database and the jobs table unchanged.
C12_UpdateOfUnknownFails ==
    [][\A j \in JobIds, s \in UpdateInputs :
          (updateJob(j, Fields(s)) /\ ~has(jobs, j))
          => /\ ret' = Threw("updateJob", NotFound)
             /\ UNCHANGED <<jobs, timers, updates, dbJobs>>]_vars

\* an update was refused while another job is scheduled
C12_Witness ==
    /\ ret = Threw("updateJob", NotFound)
    /\ DOMAIN jobs # {}
    /\ timers # {}

\* C13: start on a running scheduler returns and changes nothing: no load is
\* begun, no timer armed or cancelled, the job map stays as it is; also while
\* the first call is still loading.
C13_StartWhileRunning ==
    [][(start /\ isRunning)
       => /\ ret' = Returned("start")
          /\ UNCHANGED <<jobs, timers, isRunning, loads, dbJobs, metrics>>]_vars

\* a second call of start has returned while the first is still loading
C13_Witness ==
    /\ isRunning
    /\ Len(loads) = 1
    /\ ret = Returned("start")

\* the row of job j is loaded: it has an entry and one armed timer
Loaded(j) ==
    /\ has(jobs', j)
    /\ Cardinality(LiveTimers(timers', j)) = 1

\* the row of job j is skipped: no entry, no timer armed for it
Skipped(j) ==
    /\ ~has(jobs', j)
    /\ LiveTimers(timers', j) \subseteq LiveTimers(timers, j)

\* C14: when the load of start runs on an empty job map, every active row
\* whose schedule parses and has a next execution gets one entry and exactly
\* one armed timer, and a row whose schedule does not parse or has no next
\* execution is skipped without keeping the other rows from being armed.
C14_StartArmsEachActiveJob ==
    [][\A i \in 1..Len(loads) :
          (loadJobs(i) /\ DOMAIN jobs = {})
          => LET rows == getAllActive(dbJobs)
             IN  \A k \in 1..Len(rows) :
                    IF ~parse(rows[k].schedule) THEN Skipped(rows[k].jobId)
                    ELSE IF getNextExecution(rows[k].schedule) = {TRUE}
                         THEN Loaded(rows[k].jobId)
                         ELSE Loaded(rows[k].jobId) \/ Skipped(rows[k].jobId)]_vars

\* the entry and the armed timers of job j are what they were
Untouched(j) ==
    /\ has(jobs', j) <=> has(jobs, j)
    /\ has(jobs, j) => jobs'[j] = jobs[j]
    /\ LiveTimers(timers', j) = LiveTimers(timers, j)

\* C15: a step in which a job runs into an error (addJob with a schedule that
\* does not parse, a timer callback, whose rescheduling may find no next
\* execution, a dispatch that settles as failed or rejected, an update whose
\* database write rejects) leaves the entry and the armed timers of every
\* other job as they were.
C15_ErrorsStayWithTheirJob ==
    [][/\ \A k \in JobIds, s \in JobSpecs :
            (addJob(JobOf(k, s)) /\ ~parse(s[1]))
            => \A j \in JobIds \ {k} : Untouched(j)
       /\ \A t \in timers :
            TimerCallback(t) => \A j \in JobIds \ {t.job.jobId} : Untouched(j)
       /\ \A job \in BagToSet(inflight), r \in {"failure", "rejected"} :
            ExecuteSettles(job, r) => \A j \in JobIds : Untouched(j)
       /\ \A i \in 1..Len(updates) :
            updateJobResumes(i, FALSE)
            => \A j \in JobIds \ {updates[i].jobId} : Untouched(j)]_vars

\* a job was dispatched and found no next execution, so it has an entry and no
\* timer, while another job is still armed
C15_Witness ==
    /\ updates = << >>
    /\ \E k \in JobIds :
          /\ has(jobs, k)
          /\ LiveTimers(timers, k) = {}
          /\ \E job \in BagToSet(inflight) : job.jobId = k
          /\ \E j \in JobIds \ {k} : has(jobs, j) /\ LiveTimers(timers, j) # {}

\* the entry of job j, its one armed timer and its row come from one update
Consistent(jb, tm, db, j) ==
    /\ has(jb, j)
    /\ Cardinality(LiveTimers(tm, j)) = 1
    /\ \A t \in LiveTimers(tm, j) : t.job = jb[j].job
    /\ jb[j].schedule = jb[j].job.schedule
    /\ j \in DOMAIN db =>
          /\ db[j].schedule = jb[j].job.schedule
          /\ db[j].api = jb[j].job.api
          /\ db[j].type = jb[j].job.type

\* C17: when calls of updateJob for one jobId overlapped, each suspended on
\* its database write, then once the last of them has completed the job has
\* one entry and one armed timer, and the schedule of the entry, the job the
\* timer will dispatch and the row of the table come from the same update.
C17_UpdatesSerialized ==
    [][\A i \in 1..Len(updates) :
          (/\ updateJobResumes(i, TRUE)
           /\ updates[i].overlapped
           /\ Suspended(updates', updates[i].jobId) = {})
          => Consistent(jobs', timers', dbJobs', updates[i].jobId)]_vars

\* C18: removeJob of a jobId that has no entry returns without an error and
\* leaves the job map, with every other job's entry, the armed timers and the
\* metrics unchanged.
C18_RemoveOfUnknownIsNoOp ==
    [][\A j \in JobIds :
          (removeJob(j) /\ ~has(jobs, j))
          => /\ ret' = Returned("removeJob")
             /\ UNCHANGED <<jobs, timers, metrics>>]_vars

\* after one addJob and one removeJob, of another jobId, the job added is armed
C18_Witness ==
    /\ calls = 2
    /\ ret = Returned("removeJob")
    /\ \E j \in JobIds, k \in JobIds :
          /\ j # k
          /\ removedSince[j]
          /\ has(jobs, k)
          /\ LiveTimers(timers, k) # {}

\* the dispatches counted as settled
Settled(m) == m.successfulExecutions + m.failedExecutions

\* C19: removeJob leaves the dispatches in flight as they are; every dispatch
\* started is in flight until it settles, and is counted once, as a success or
\* as a failure, when it does.
C19_RemoveLeavesDispatch ==
    /\ [][/\ \A j \in JobIds :
               removeJob(j) => (inflight' = inflight /\ metrics' = metrics)
          /\ \A job \in BagToSet(inflight), r \in Settlements :
               ExecuteSettles(job, r)
               => /\ Settled(metrics') = Settled(metrics) + 1
                  /\ CopiesIn(job, inflight') = CopiesIn(job, inflight) - 1]_vars
    /\ [](metrics.totalExecutions = Settled(metrics) + BagCardinality(inflight))
    /\ [](\A job \in BagToSet(inflight) : ENABLED ExecuteSettles(job, "success"))

\* two dispatches of a job are in flight and the job has been removed; with
\* two calls made, an addJob and the removeJob, both started before the removal
C19_Witness ==
    /\ calls = 2
    /\ \E job \in BagToSet(inflight) :
          /\ CopiesIn(job, inflight) = 2
          /\ removedSince[job.jobId]
          /\ ~has(jobs, job.jobId)

(***************************************************************************)
(* Properties of one dispatch, checked under SpecExec.                     *)
(***************************************************************************)
Started == pc # "idle"

Sleeping == pc \in {"sleepAfterResponse", "sleepAfterError"}

\* makeRequest has returned or thrown
RequestDone == pc \in {"create", "createInCatch", "returned", "rejected"}

Succeeded(r) == r.error = NoError /\ Is2xx(r.status)

\* C5: a dispatch of a job whose type is not ATLEAST_ONCE makes exactly one
\* outbound call, also when the call ends in a transport error.
C5_OtherTypesCallOnce ==
    (Started /\ execJob.type # AtLeastOnce) => posts = 1

C9_ExecuteNeverRejects ==
    pc # "rejected"

\* the message execute reports for an attempt that ended as r did
MessageOf(r) == IF r.error = NoError THEN "HTTP " \o ToString(r.status) ELSE r.error

\* C10: an ATLEAST_ONCE dispatch whose three attempts all failed returns status
\* failure and the result of the last attempt: the error message of the outcome
\* is "HTTP " followed by the status code of the last response, or the message
\* of the last transport error when no response came.
C10_ReportsLastAttempt ==
    (/\ execJob.type = AtLeastOnce
     /\ pc = "returned"
     /\ createErrors = 0
     /\ posts = maxRetries
     /\ ~Succeeded(attempts[maxRetries]))
    => /\ outcome.status = "failure"
       /\ outcome.error = MessageOf(attempts[maxRetries])
       /\ executions = <<outcome>>

\* three failed attempts that ended differently, the last with status 500
C10_Witness ==
    /\ execJob.type = AtLeastOnce
    /\ pc = "returned"
    /\ createErrors = 0
    /\ posts = maxRetries
    /\ attempts[1] = Rejected("connect ECONNREFUSED")
    /\ attempts[2] = Responded(300)
    /\ attempts[3] = Responded(500)
    /\ outcome.error = "HTTP 500"

\* C20: a dispatch that returns a failure outcome has raised exactly one alert,
\* which carries the job and the status or error of the outcome; a dispatch
\* that returns a success outcome has raised none; and an alert is raised only
\* after the record of the outcome is stored, so it cannot hold the record up.
C20_OneAlertPerFailure ==
    /\ Len(alerts) <= Len(executions)
    /\ pc # "returned" => alerts = << >>
    /\ (pc = "returned" /\ outcome.status = "success") => alerts = << >>
    /\ (pc = "returned" /\ outcome.status = "failure")
       => /\ Len(alerts) = 1
          /\ alerts[1].jobId = execJob.jobId
          /\ alerts[1].httpStatus = outcome.httpStatus
          /\ alerts[1].error = outcome.error

\* a dispatch failed after three attempts and raised its one alert
C20_Witness ==
    /\ pc = "returned"
    /\ outcome.status = "failure"
    /\ posts = maxRetries
    /\ Len(alerts) = 1
    /\ Len(executions) = 1

(***************************************************************************)
(* Properties of the timers of one job on a clock, checked under SpecTime. *)
(***************************************************************************)

\* C16: also when the delay to the next execution is longer than the longest
\* timer, the job is dispatched only once the instant the timer was armed for
\* has been reached: a timer that ends before it dispatches nothing.
C16_NoDispatchBeforeItsInstant ==
    \A k \in 1..Len(dispatchedAt) :
        dispatchedAt[k].at >= dispatchedAt[k].executionTime

(***************************************************************************)
(* Properties of the parser and of the calculator, checked under SpecCron. *)
(***************************************************************************)

\* getNextExecution returned a Date
Returns == nextExecution.time >= 0

\* the instant a is later than the instant b
Later(a, b) == a.time > b.time \/ (a.time = b.time /\ a.ms > b.ms)

\* C21: whenever getNextExecution returns a result for a reference instant
\* and a parsed schedule, the result is strictly after the reference instant,
\* has zero milliseconds and is accepted by all six fields of the schedule.
C21_NextIsLaterAndMatches ==
    Returns =>
        /\ Later(nextExecution, fromDate)
        /\ nextExecution.ms = 0
        /\ matchesSchedule(nextExecution, schedule, timeZone)

\* C22: the result is the earliest matching whole second that is at least one
\* second after the reference instant truncated to whole seconds: it is not
\* the second the reference instant lies in, no whole second between the two
\* matches, and second 0 of every minute asked at 12:00:00.500 gives 12:01:00.
C22_EarliestWholeSecond ==
    Returns =>
        /\ nextExecution.ms = 0
        /\ nextExecution.time >= fromDate.time + 1
        /\ \A t \in (fromDate.time + 1)..(nextExecution.time - 1) :
              ~matchesSchedule(Date(t, 0), schedule, timeZone)
        /\ (/\ cronExpression = "0 * * * * *"
            /\ fromDate = Date(At(0, 12, 0, 0), 500)
            /\ timeZone = FixedZone) => nextExecution = Date(At(0, 12, 1, 0), 0)

\* the number of maximal runs of characters other than white space
Words(str) ==
    Cardinality({i \in 1..Len(str) :
        /\ ~IsSpace(charAt(str, i))
        /\ (i = 1 \/ IsSpace(charAt(str, i - 1)))})

\* C23: parse throws the field-count error for every expression that does
\* not consist of exactly six fields separated by white space, white space at
\* the ends aside, and throws no field-count error for one that does.
C23_SixFieldsOrRejected ==
    schedule # NotParsed =>
        ((schedule.error = FieldCountError) <=> (Words(cronExpression) # 6))

\* parse rejected an expression of seven fields
C23_Witness ==
    /\ schedule.error = FieldCountError
    /\ Words(cronExpression) = 7

\* every value of the parsed field is an integer of min..max
WithinDomain(field, min, max) ==
    \A i \in 1..Len(field.values) : field.values[i] \in min..max

\* a decimal numeral of at least one digit
IsNumeral(token) ==
    /\ Len(token) > 0
    /\ \A i \in 1..Len(token) : IsDigit(charAt(token, i))

\* the tokens of a field: the endpoints of a range, the elements of a list,
\* or the single value
Tokens(field) ==
    IF includes(field, "-") THEN split(field, "-")
    ELSE IF includes(field, ",") THEN split(field, ",")
    ELSE <<field>>

\* the six fields of the expression in the state
FieldsOf(expression) == splitSpaces(trim(expression))

\* C24: in every schedule parse returns, the values of each field are
\* integers of the domain of the field (second and minute 0..59, hour 0..23,
\* day of month 1..31, month 1..12, day of week 0..6), and parse accepts no
\* expression with a token that is empty or not a number (not a number nor a
\* day name, in the day-of-week field).
C24_ValuesWithinDomain ==
    schedule.error = NoError =>
        /\ WithinDomain(schedule.second, 0, 59)
        /\ WithinDomain(schedule.minute, 0, 59)
        /\ WithinDomain(schedule.hour, 0, 23)
        /\ WithinDomain(schedule.day, 1, 31)
        /\ WithinDomain(schedule.month, 1, 12)
        /\ WithinDomain(schedule.dayOfWeek, 0, 6)
        /\ \A f \in 1..5 :
              LET tokens == Tokens(FieldsOf(cronExpression)[f])
              IN  \/ FieldsOf(cronExpression)[f] = "*"
                  \/ \A i \in 1..Len(tokens) : IsNumeral(tokens[i])
        /\ LET tokens == Tokens(FieldsOf(cronExpression)[6])
           IN  \/ FieldsOf(cronExpression)[6] = "*"
               \/ \A i \in 1..Len(tokens) :
                     IsNumeral(tokens[i]) \/ inDayMap(toUpperCase(tokens[i]))

\* a day name in any letter case, or an integer of 0..6
IsDayToken(token) ==
    \/ inDayMap(toUpperCase(token))
    \/ IsNumeral(token) /\ Number(token) \in 0..6

\* C25: parse rejects every expression of six fields whose day-of-week field
\* has a token that is neither a day name, in any letter case, nor an integer
\* of 0..6, be the token the single value, an element of a list or an
\* endpoint of a range.
C25_UnknownDayRejected ==
    (/\ schedule # NotParsed
     /\ Len(FieldsOf(cronExpression)) = 6
     /\ FieldsOf(cronExpression)[6] # "*"
     /\ \E i \in 1..Len(Tokens(FieldsOf(cronExpression)[6])) :
           ~IsDayToken(Tokens(FieldsOf(cronExpression)[6])[i]))
    => schedule.error # NoError

\* parse accepted the expression with these days of the week
DaysAre(values) == schedule.error = NoError /\ schedule.dayOfWeek.values = values

\* C26: the day-of-week field takes a single integer, a range and a list as
\* the other fields do, with integers 0..6 and day names interchangeable:
\* the ranges "1-5", "MON-5" and "MON-FRI" all parse to 1,2,3,4,5, and the
\* lists "MON,3,FRI" and "1,3,5" to 1,3,5.
C26_NumbersAndNamesAlike ==
    schedule # NotParsed =>
        /\ cronExpression \in {"* * * * * 1-5", "* * * * * MON-5", "* * * * * MON-FRI"}
              => DaysAre(<<1, 2, 3, 4, 5>>)
        /\ cronExpression \in {"* * * * * MON,3,FRI", "* * * * * 1,3,5"}
              => DaysAre(<<1, 3, 5>>)
        /\ cronExpression \in {"* * * * * 3", "59 59 23 31 1 3"} => DaysAre(<<3>>)

\* the expression whose day-of-week field is the range from day a to day b
DayRangeExpression(a, b) == "* * * * * " \o DayNames[a + 1] \o "-" \o DayNames[b + 1]

\* C27: for each of the 49 pairs of a start day and an end day, the range
\* parses to the days met stepping forward modulo 7 from the start day to the
\* end day inclusive: between 1 and 7 distinct days, FRI-MON giving 5,6,0,1,
\* MON-FRI giving 1,2,3,4,5 and a range from a day to itself that one day.
C27_DayRangeWraps ==
    \A a \in 0..6, b \in 0..6 :
        (schedule # NotParsed /\ cronExpression = DayRangeExpression(a, b)) =>
            LET values == schedule.dayOfWeek.values
            IN  /\ schedule.error = NoError
                /\ Len(values) = ((b - a + 7) % 7) + 1
                /\ \A i \in 1..Len(values) : values[i] = (a + i - 1) % 7
                /\ Cardinality({values[i] : i \in 1..Len(values)}) = Len(values)
                /\ (a = 5 /\ b = 1) => values = <<5, 6, 0, 1>>
                /\ (a = 1 /\ b = 5) => values = <<1, 2, 3, 4, 5>>
                /\ (a = b) => values = <<a>>

\* parse took the range FRI-MON, which wraps over the end of the week
C27_Witness ==
    /\ cronExpression = DayRangeExpression(5, 1)
    /\ schedule.error = NoError
    /\ schedule.dayOfWeek.values = <<5, 6, 0, 1>>

\* the field accepts the value: Any accepts every value, a match-set its members
Accepts(field, value) ==
    \/ field.type = "all"
    \/ value \in {field.values[i] : i \in 1..Len(field.values)}

\* the schedule of the example of the specification
Example == "31 10-15 1 * * MON-FRI"

\* C28: matchesSchedule says yes exactly when each of the six components of
\* the instant (second, minute, hour, day of month, month, day of week) is
\* accepted by its field; so "31 10-15 1 * * MON-FRI" matches Wednesday
\* 01:12:31 and matches neither 01:12:30 nor 02:12:31 of that day, nor
\* 01:12:31 of a Saturday.
C28_MatchesFieldByField ==
    matched # << >> =>
        /\ matched[1] =
              (/\ Accepts(schedule.second, getSeconds(fromDate, timeZone))
               /\ Accepts(schedule.minute, getMinutes(fromDate, timeZone))
               /\ Accepts(schedule.hour, getHours(fromDate, timeZone))
               /\ Accepts(schedule.day, getDate(fromDate, timeZone))
               /\ Accepts(schedule.month, getMonth(fromDate, timeZone) + 1)
               /\ Accepts(schedule.dayOfWeek, getDay(fromDate, timeZone)))
        /\ (cronExpression = Example /\ timeZone = FixedZone) =>
              /\ fromDate = Date(At(2, 1, 12, 31), 0) => matched[1]
              /\ fromDate = Date(At(2, 1, 12, 30), 0) => ~matched[1]
              /\ fromDate = Date(At(2, 2, 12, 31), 0) => ~matched[1]
              /\ fromDate = Date(At(5, 1, 12, 31), 0) => ~matched[1]

\* the example matched Wednesday 3 January 2024, 01:12:31
C28_Witness ==
    /\ cronExpression = Example
    /\ timeZone = FixedZone
    /\ fromDate = Date(At(2, 1, 12, 31), 0)
    /\ matched = <<TRUE>>

(***************************************************************************)
(* Properties of the update route, checked under SpecPut.                  *)
(***************************************************************************)

\* the body of a request that carries a new schedule and nothing else
ScheduleOnly(s) == [api |-> Undefined, schedule |-> s, type |-> Undefined]

\* C29: a PUT for a scheduled job that carries only a new schedule is not
\* refused: it reaches updateJob, which cancels the timer and awaits the
\* database; and an update that completes leaves the api and the type of the
\* job as they were, in the map and in the table, when the request carried
\* none.
C29_PartialUpdate ==
    [][/\ \A j \in JobIds, s \in {EverySecond, LeapDay} :
             (has(jobs, j) /\ putJob(j, ScheduleOnly(s)))
                 => (ret' # Threw("put", MissingFields) /\ Len(updates') = Len(updates) + 1)
       /\ \A i \in 1..Len(updates) :
             (updateJobResumes(i, TRUE) /\ has(jobs', updates[i].jobId)) =>
                 LET u == updates[i]
                 IN  /\ u.fields.api = Undefined =>
                           /\ jobs'[u.jobId].job.api = u.job.api
                           /\ dbJobs'[u.jobId].api = dbJobs[u.jobId].api
                     /\ u.fields.type = Undefined =>
                           /\ jobs'[u.jobId].job.type = u.job.type
                           /\ dbJobs'[u.jobId].type = dbJobs[u.jobId].type
      ]_vars

(***************************************************************************)
(* The handle of the entry, checked under Spec.                            *)
(***************************************************************************)

\* C30: whenever a job with an entry in the map has a live timer, the
\* timeoutId of the entry is the handle of that timer, so that removeJob,
\* updateJob and stop can cancel it; this holds from the return of addJob,
\* start or updateJob on, not only after the first fire of the job.
C30_EntryHoldsLiveTimer ==
    \A j \in JobIds :
        has(jobs, j) => \A t \in LiveTimers(timers, j) : jobs[j].timeoutId = t.id

(***************************************************************************)
(* Properties of updateJob and of the job map, checked under Spec.         *)
(***************************************************************************)

\* C31: once updateJob has returned with the entry of the job replaced, every
\* dispatch of the job is of the updated definition (url and delivery mode):
\* no armed timer of the job is left that would dispatch, at its fire, the
\* definition that was replaced.
C31_NoTimerOfReplacedJob ==
    [][\A i \in 1..Len(updates) :
          LET u == updates[i]
          IN  (/\ updateJobResumes(i, TRUE)
               /\ has(jobs', u.jobId)
               /\ jobs'[u.jobId].job = updatedJob(u.job, u.fields))
              => \A t \in LiveTimers(timers', u.jobId) : t.job = jobs'[u.jobId].job]_vars

\* C32: when removeJob ran for a job while an updateJob for it was suspended
\* on the database, the update that resumes does not bring the job back: the
\* job has no entry and no armed timer afterwards.
C32_RemovalIsTerminal ==
    [][\A i \in 1..Len(updates) :
          (/\ removedSince[updates[i].jobId]
           /\ \E dbOk \in BOOLEAN : updateJobResumes(i, dbOk))
          => (/\ ~has(jobs', updates[i].jobId)
              /\ LiveTimers(timers', updates[i].jobId) = {})]_vars

\* C33: updateJob with a schedule that parse rejects cancels no timer, and
\* leaves the row of the job, its entry and its armed timers as they were.
C33_BadScheduleChangesNothing ==
    [][/\ \A j \in JobIds, s \in UpdateInputs :
             (has(jobs, j) /\ ~parse(s[1]) /\ updateJob(j, Fields(s)))
                 => timers' = timers
       /\ \A i \in 1..Len(updates) :
             (~parse(updates[i].fields.schedule) /\ updateJobResumes(i, TRUE))
                 => (dbJobs' = dbJobs /\ jobs' = jobs /\ timers' = timers)]_vars

\* C34: when the database rejects the write of updateJob, updateJob fails and
\* the job, if it is in the map on a schedule that always has a next
\* execution, still has an armed timer afterwards.
C34_FailedWriteKeepsTimer ==
    [][\A i \in 1..Len(updates) :
          LET j == updates[i].jobId
          IN  (/\ updateJobResumes(i, FALSE)
               /\ has(jobs, j)
               /\ jobs[j].schedule = EverySecond)
              => (/\ ret'.error # NoError
                  /\ has(jobs', j)
                  /\ LiveTimers(timers', j) # {})]_vars

\* C35: a job that is in the map has an armed timer whenever no updateJob for
\* it is suspended: no job is counted in activeJobs without a timer that will
\* fire for it.
C35_EveryEntryHasATimer ==
    \A j \in JobIds :
        (has(jobs, j) /\ Suspended(updates, j) = {}) => LiveTimers(timers, j) # {}



(***************************************************************************)
(* Properties of the metrics, checked under Spec.                          *)
(***************************************************************************)

\* C38: no counter increment is lost: every timer fire adds one to
\* totalExecutions, every settlement of a dispatch adds one to the sum of the
\* success and failure counters, so the sum plus the number of dispatches in
\* flight equals totalExecutions in every state: the sum never exceeds
\* totalExecutions and equals it whenever no dispatch is in flight.
C38_NoLostIncrement ==
    /\ [][/\ (\E t \in timers : TimerCallback(t))
               <=> metrics'.totalExecutions = metrics.totalExecutions + 1
          /\ metrics'.totalExecutions \in
               {metrics.totalExecutions, metrics.totalExecutions + 1}
          /\ (\E job \in BagToSet(inflight), r \in Settlements : ExecuteSettles(job, r))
               <=> Settled(metrics') = Settled(metrics) + 1
          /\ Settled(metrics') \in {Settled(metrics), Settled(metrics) + 1}]_vars
    /\ [](/\ Settled(metrics) + BagCardinality(inflight) = metrics.totalExecutions
          /\ Settled(metrics) <= metrics.totalExecutions
          /\ (inflight = EmptyBag) => (Settled(metrics) = metrics.totalExecutions))

C38_Witness ==
    /\ metrics.totalExecutions = 2
    /\ metrics.successfulExecutions = 1
    /\ metrics.failedExecutions = 1
    /\ inflight = EmptyBag

C38_Interleaved ==
    /\ metrics.totalExecutions = 2
    /\ Settled(metrics) = 1
    /\ BagCardinality(inflight) = 1


(***************************************************************************)
(* Properties of the chain of fires of one job, checked under SpecTime.    *)
(***************************************************************************)
\* C37: at each re-arm the execution time recorded for the new timer is
\* strictly later than the execution time of the fire that just happened, so
\* the execution times dispatched are strictly increasing: no occurrence is
\* dispatched twice.
C37_NextFireStrictlyLater ==
    /\ [][TimerElapses => pending'.executionTime > pending.executionTime]_vars
    /\ [](\A i \in 1..Len(dispatchedAt), k \in 1..Len(dispatchedAt) :
             i < k => dispatchedAt[i].executionTime < dispatchedAt[k].executionTime)


(***************************************************************************)
(* Properties of a job left alone, checked under SpecFire.                 *)
(***************************************************************************)
Recurring(j) == has(jobs, j) /\ jobs[j].schedule = EverySecond

\* C36: a job in the map on a schedule that always has a next execution, and
\* never removed, updated or stopped, is armed, fires and is armed again: each
\* timer callback of the job arms exactly one timer for it, whose handle the
\* entry holds, and the job has a live timer in every state; while it is the
\* only job in the map each state is followed by another fire of it, and with
\* any jobs in the map the callbacks go on until MaxFires of them have run.
C36_ArmedFiresArmed ==
    /\ [][\A j \in JobIds : \A t \in LiveTimers(timers, j) :
             (Recurring(j) /\ TimerCallback(t))
             => /\ Recurring(j)'
                /\ LiveTimers(timers, j) \ {t} \subseteq LiveTimers(timers', j)
                /\ Cardinality(LiveTimers(timers', j) \ (LiveTimers(timers, j) \ {t})) = 1
                /\ Rearmed(jobs', timers', j)]_vars
    /\ [](\A j \in JobIds : Recurring(j) => LiveTimers(timers, j) # {})
    /\ \A j \in JobIds, n \in 0..(MaxFires - 1) :
          (Recurring(j) /\ DOMAIN jobs = {j} /\ metrics.totalExecutions = n)
              ~> (metrics.totalExecutions = n + 1 \/ DOMAIN jobs # {j})
    /\ \A j \in JobIds :
          (Recurring(j) /\ metrics.totalExecutions < MaxFires)
              ~> (metrics.totalExecutions = MaxFires)

\* the job has fired MaxFires times and is armed again
C36_Witness ==
    \E j \in JobIds :
        /\ Recurring(j)
        /\ Rearmed(jobs, timers, j)
        /\ \E job \in BagToSet(inflight) :
              job.jobId = j /\ CopiesIn(job, inflight) = MaxFires


(***************************************************************************)
(* Properties of the average drift, checked under SpecDrift.               *)
(***************************************************************************)
RECURSIVE ClampedSum(_)
ClampedSum(fires) ==
    IF fires = << >>
    THEN 0
    ELSE LET d == driftOf(fires[Len(fires)])
         IN  ClampedSum(SubSeq(fires, 1, Len(fires) - 1)) + (IF d > 0 THEN d ELSE 0)

\* C39: after n fires the average drift is the sum over the fires of
\* max(drift, 0), divided by n: a fire with zero or negative drift counts as 0
\* and counts in n.
C39_AverageOfClampedDrifts ==
    LET n == Len(dispatchedAt)
        averageDelay == averageDelayAfter(dispatchedAt)
    IN  n > 0 => averageDelay.num * n = ClampedSum(dispatchedAt) * averageDelay.den


(***************************************************************************)
(* Properties of the search of getNextExecution, checked under SpecHorizon.*)
(***************************************************************************)
\* the probes the loop has left at the iteration maxAttempts - left
Remaining(left) ==
    {Date(nextWith(left, fromDate, timeZone).time + k, 0) : k \in 0..(left - 1)}

EmptyField(field, domain) ==
    field.type # "all" /\ \A i \in 1..Len(field.values) : field.values[i] \notin domain

\* no value of some field can occur, or no month taken has a day taken
EmptyMatchSet(sch) ==
    \/ EmptyField(sch.second, 0..59)
    \/ EmptyField(sch.minute, 0..59)
    \/ EmptyField(sch.hour, 0..23)
    \/ EmptyField(sch.day, 1..31)
    \/ EmptyField(sch.month, 1..12)
    \/ EmptyField(sch.dayOfWeek, 0..6)
    \/ \A m \in 1..12, d \in 1..31 :
          (fieldMatches(m, sch.month) /\ fieldMatches(d, sch.day)) => d > MonthLengths[m]

\* C40: getNextExecution makes at most maxAttempts = 365*24*60*60 probes: at
\* the iteration maxAttempts - left it returns the first of the `left` probes
\* it has left that matches, and throws when none of them does, and at once
\* when left = 0; what it returns matches the schedule, and for a schedule
\* that no instant matches it throws.
C40_BoundedSearch ==
    /\ maxAttempts = 365 * 24 * 60 * 60
    /\ [][\A left \in 0..MaxLeft :
             LastProbes(left) =>
                LET matching == {d \in Remaining(left) :
                                    matchesSchedule(d, schedule, timeZone)}
                IN  IF matching = {}
                    THEN nextExecution' = NoExecutionFound
                    ELSE /\ nextExecution' \in matching
                         /\ \A d \in matching : nextExecution'.time <= d.time]_vars
    /\ [](nextExecution \notin {NoDate, NoExecutionFound}
             => matchesSchedule(nextExecution, schedule, timeZone))
    /\ []((nextExecution # NoDate /\ EmptyMatchSet(schedule))
             => nextExecution = NoExecutionFound)

\* a schedule that no instant matches, and the call has thrown
C40_Witness ==
    /\ schedule.error = NoError
    /\ EmptyMatchSet(schedule)
    /\ nextExecution = NoExecutionFound

\* the last probe of the loop matches
C40_FoundByLastProbe ==
    /\ nextExecution \notin {NoDate, NoExecutionFound}
    /\ nextExecution.time = firstProbe(fromDate, timeZone).time + (maxAttempts - 1)

\* a schedule that some instant matches, none within the probes: the call has thrown
C40_JustBeyond ==
    /\ schedule.error = NoError
    /\ ~EmptyMatchSet(schedule)
    /\ nextExecution = NoExecutionFound

====
